---- MODULE Spec2Model ----
(***************************************************************************)
(* Model of the tezos-delegation-service ingestion path: the Poller        *)
(* (backfill then ticker-driven polling), XtzFetcherService                *)
(* .StoreDelegations (fetch, translate, SaveBatch), the TzktClient query   *)
(* encoding, and the sqlite-backed Database.                               *)
(*                                                                         *)
(* Timestamps are modelled as integers: EmptyTs (0) is the empty string,   *)
(* BadTs (-1) is a string that time.Parse(RFC3339) rejects, and 1..MaxTs   *)
(* are well-formed RFC3339 instants in increasing order.                   *)
(***************************************************************************)
EXTENDS Integers, Sequences, FiniteSets, TLC

\* ---------------------------------------------------------------- bounds
MaxSrc == 3
MaxTs == 3
MaxPage == 2
MaxStarts == 2
MaxBatch == 2

\* ------------------------------------------------------------- constants
EmptyTs == 0
BadTs == 0 - 1
TsPerYear == 2
BaseYear == 2018

Callers == {1, 2}
MainCaller == 1

Timestamps == 1..MaxTs

VARIABLES
    source,       \* remote source: sequence of raw records, id ascending
    pageSize,     \* the limit=N the source applies to every query
    now,          \* time.Now().Year()
    store,        \* delegations table: set of rows
    lastFetched,  \* Poller.lastFetched
    offset,       \* Poller.offset
    started,      \* Poller.started
    cancelled,    \* Poller.ctx is done
    startPc,      \* per caller: position inside Start()
    calls,        \* per caller: number of Start() calls begun
    pc,           \* per launched goroutine: position in backfill / poll loop
    raw,          \* per goroutine: *results inside StoreDelegations
    results,      \* per goroutine: results returned by StoreDelegations
    err,          \* per goroutine: err returned by StoreDelegations
    tick,         \* per goroutine: a value is waiting in timer.C
    saveCall,     \* repository harness: last SaveBatch argument and result
    bfLog,        \* poller harness: what the mocks saw during backfill
    readCall,     \* read side: the last read request and its answer
    getCall,      \* client harness: last TzktClient.GetDelegations call
    tx,           \* repository harness: the SaveBatch transaction in progress
    parentDone    \* the context given to NewPoller is done

vars == <<source, pageSize, now, store, lastFetched, offset, started,
          cancelled, startPc, calls, pc, raw, results, err, tick,
          saveCall, bfLog, readCall, getCall, tx, parentDone>>

\* --------------------------------------------------------------- helpers
Skip(s, n) == IF n >= Len(s) THEN <<>> ELSE SubSeq(s, n + 1, Len(s))

Take(s, n) == IF n >= Len(s) THEN s ELSE SubSeq(s, 1, n)

\* time.Parse(time.RFC3339, ts) succeeds
ParseOk(ts) == ts >= 1

\* parsedTimestamp.Year()
YearOf(ts) == BaseYear + (ts \div TsPerYear)

\* a raw record as the source delivers it (transport.DelegationResponse)
DelegationResponse(id, ts) ==
    [id |-> id, timestamp |-> ts, amount |-> 1000 * id,
     sender |-> id + 10, level |-> 100 + id]

\* Translate that leaves Year at its zero value
Translate_NoYear(r) ==
    [ID |-> r.id, Timestamp |-> r.timestamp, Amount |-> r.amount,
     Delegator |-> r.sender, Level |-> r.level, Year |-> 0]

\* the body of the translation loop of StoreDelegations
Translate(r) ==
    [ID |-> r.id, Timestamp |-> r.timestamp, Amount |-> r.amount,
     Delegator |-> r.sender, Level |-> r.level, Year |-> YearOf(r.timestamp)]

TranslateAll(rs) == [i \in 1..Len(rs) |-> Translate(rs[i])]

AllParse(rs) == \A i \in 1..Len(rs) : ParseOk(rs[i].timestamp)

\* TzktClient.GetDelegations: the query parameters added to the URL
\* a client that sends the offset only together with a timestamp
BuildQuery_OffsetWithTs(off, fromTimestamp) ==
    IF fromTimestamp # EmptyTs
    THEN [tsgt |-> <<fromTimestamp>>,
          offset |-> IF off > 0 THEN <<off>> ELSE <<>>]
    ELSE [tsgt |-> <<>>, offset |-> <<>>]

BuildQuery(off, fromTimestamp) ==
    [tsgt |-> IF fromTimestamp # EmptyTs THEN <<fromTimestamp>> ELSE <<>>,
     offset |-> IF off > 0 THEN <<off>> ELSE <<>>]

\* the remote source answering a query: filter, then skip, then limit
\* a source that ignores the timestamp filter
TsFilter_None(src, q) == src

TsFilter(src, q) ==
    IF q.tsgt = <<>> THEN src
    ELSE SelectSeq(src, LAMBDA r : r.timestamp > q.tsgt[1])

ServeQuery(src, q, limit) ==
    Take(Skip(TsFilter(src, q), IF q.offset = <<>> THEN 0 ELSE q.offset[1]),
         limit)

\* one row of a plain INSERT: a present id is a UNIQUE constraint failure
InsertRow_NoOnConflict(acc, d) ==
    IF acc.err # "none" THEN acc
    ELSE IF d.ID \in {r.ID : r \in acc.rows}
         THEN [rows |-> acc.rows, err |-> "constraint"]
    ELSE [rows |-> acc.rows \cup {d}, err |-> "none"]

\* one row of INSERT ... ON CONFLICT (id) DO NOTHING inside the transaction:
\* acc is [rows, err]; a row whose id is present is skipped without error
InsertRow(acc, d) ==
    IF acc.err # "none" THEN acc
    ELSE IF d.ID \in {r.ID : r \in acc.rows} THEN acc
    ELSE [rows |-> acc.rows \cup {d}, err |-> "none"]

RECURSIVE InsertAll(_, _)
InsertAll(acc, ds) ==
    IF ds = <<>> THEN acc ELSE InsertAll(InsertRow(acc, Head(ds)), Tail(ds))

\* a SaveBatch that replaces the table by the batch
SaveBatch_Replace(st, ds) ==
    IF Len(ds) = 0 THEN [rows |-> st, err |-> "none"]
    ELSE [rows |-> {ds[i] : i \in 1..Len(ds)}, err |-> "none"]

\* Database.SaveBatch on a database that accepts the transaction:
\* [rows, err], rows rolled back when a row failed
SaveBatch(st, ds) ==
    IF Len(ds) = 0 THEN [rows |-> st, err |-> "none"]
    ELSE LET r == InsertAll([rows |-> st, err |-> "none"], ds)
         IN IF r.err # "none" THEN [rows |-> st, err |-> r.err] ELSE r

\* Database.GetLatestDelegation: ORDER BY timestamp DESC, id LIMIT 1,
\* only id and timestamp selected
YearRows(st, year) == {r \in st : r.Year = year}

\* a latest-record query that sorts the wrong way
GetLatestDelegation_Oldest(st, year) ==
    IF YearRows(st, year) = {}
    THEN [found |-> FALSE, ID |-> 0, Timestamp |-> EmptyTs]
    ELSE LET top == CHOOSE r \in YearRows(st, year) :
                      \A o \in YearRows(st, year) :
                         \/ o.Timestamp > r.Timestamp
                         \/ (o.Timestamp = r.Timestamp /\ o.ID >= r.ID)
         IN [found |-> TRUE, ID |-> top.ID, Timestamp |-> top.Timestamp]

\* a latest-record query over every partition
GetLatestDelegation_AnyYear(st, year) ==
    IF st = {}
    THEN [found |-> FALSE, ID |-> 0, Timestamp |-> EmptyTs]
    ELSE LET top == CHOOSE r \in st :
                      \A o \in st :
                         \/ o.Timestamp < r.Timestamp
                         \/ (o.Timestamp = r.Timestamp /\ o.ID >= r.ID)
         IN [found |-> TRUE, ID |-> top.ID, Timestamp |-> top.Timestamp]

GetLatestDelegation(st, year) ==
    IF YearRows(st, year) = {}
    THEN [found |-> FALSE, ID |-> 0, Timestamp |-> EmptyTs]
    ELSE LET top == CHOOSE r \in YearRows(st, year) :
                      \A o \in YearRows(st, year) :
                         \/ o.Timestamp < r.Timestamp
                         \/ (o.Timestamp = r.Timestamp /\ o.ID >= r.ID)
         IN [found |-> TRUE, ID |-> top.ID, Timestamp |-> top.Timestamp]

\* Database.GetDelegations: `limit := 50`
PageLimit == 50

\* ORDER BY timestamp DESC; SQL leaves the order of rows with one timestamp
\* open, tie says which way the engine happens to emit them
RECURSIVE OrderDesc(_, _)
OrderDesc(rows, tie) ==
    IF rows = {} THEN <<>>
    ELSE LET top == CHOOSE r \in rows :
                      \A o \in rows :
                         \/ o.Timestamp < r.Timestamp
                         \/ /\ o.Timestamp = r.Timestamp
                            /\ IF tie = "asc" THEN o.ID >= r.ID
                                              ELSE o.ID <= r.ID
         IN <<top>> \o OrderDesc(rows \ {top}, tie)

\* GetDelegations without the descending order
GetDelegations_Unordered(st, year, off, tie) ==
    LET RECURSIVE ById(_)
        ById(rows) ==
            IF rows = {} THEN <<>>
            ELSE LET first == CHOOSE r \in rows : \A o \in rows : o.ID >= r.ID
                 IN <<first>> \o ById(rows \ {first})
        ord == ById(YearRows(st, year))
    IN Take(IF off > 0 THEN Skip(ord, off) ELSE ord, PageLimit)

\* Database.GetDelegations: Where year, Order timestamp DESC, Offset (gorm
\* writes OFFSET only for a positive value), Limit 50
GetDelegations(st, year, off, tie) ==
    LET ord == OrderDesc(YearRows(st, year), tie)
    IN Take(IF off > 0 THEN Skip(ord, off) ELSE ord, PageLimit)

\* a response in which record k carries a timestamp that does not parse
Corrupt(batch, k) ==
    IF k = 0 THEN batch ELSE [batch EXCEPT ![k].timestamp = BadTs]

NoSave == [batch |-> <<>>, err |-> "none"]

\* the recorder of the poller tests' mocks: the answer of the repository to
\* the seeding query and the arguments and answer of every backfill fetch;
\* the program itself carries no recorder (on = FALSE)
NoLog == [on |-> FALSE, seed |-> <<>>, calls |-> <<>>]

\* no read request made yet
NoRead == [kind |-> "none", req |-> <<>>, year |-> 0, offset |-> 0,
           read |-> FALSE, page |-> <<>>, err |-> "none", status |-> 0]

\* no call of the client recorded
NoGet == [sent |-> FALSE, offset |-> 0, from |-> 0, query |-> <<>>,
          batch |-> <<>>]

\* no transaction open
NoTx == [open |-> FALSE, base |-> {}, batch |-> <<>>, work |-> {},
         done |-> 0, err |-> "none", seenAt |-> 0 - 1]

Probes == <<getCall, tx>>
\* what no step of the poller, the service or the repository changes
Env == <<pageSize, now, parentDone>>

Fixed == <<Env, bfLog, readCall, Probes>>
PollerVars == <<lastFetched, offset, started, cancelled>>
UnitVars == <<pc, raw, results, err, tick>>

\* ------------------------------------------------------------------ Init
\* main(): NewTzktClient, NewDatabase on a fresh file, NewPoller
Init ==
    /\ source = <<>>
    /\ pageSize \in 1..MaxPage
    /\ now = YearOf(MaxTs)
    /\ store = {}
    /\ lastFetched = EmptyTs
    /\ offset = 0
    /\ started = FALSE
    /\ cancelled = FALSE
    /\ startPc = [c \in Callers |-> "idle"]
    /\ calls = [c \in Callers |-> 0]
    /\ pc = [c \in Callers |-> "none"]
    /\ raw = [c \in Callers |-> <<>>]
    /\ results = [c \in Callers |-> <<>>]
    /\ err = [c \in Callers |-> "none"]
    /\ tick = [c \in Callers |-> FALSE]
    /\ saveCall = NoSave
    /\ bfLog = NoLog
    /\ readCall = NoRead
    /\ getCall = NoGet
    /\ tx = NoTx
    /\ parentDone = FALSE

\* --------------------------------------------------------------- actions
\* the remote chain produces a new delegation (ids ascending)
SourceAppend ==
    /\ Len(source) < MaxSrc
    /\ \E ts \in Timestamps :
          source' = Append(source, DelegationResponse(Len(source) + 1, ts))
    /\ UNCHANGED <<Fixed, saveCall, store, PollerVars, startPc, calls,
                   UnitVars>>

\* Start without the `if p.started` guard
StartCheck_NoGuard(c) ==
    /\ startPc[c] = "idle"
    /\ calls[c] < MaxStarts
    /\ calls' = [calls EXCEPT ![c] = @ + 1]
    /\ startPc' = [startPc EXCEPT ![c] = "launch"]
    /\ UNCHANGED <<source, Fixed, saveCall, store, PollerVars, UnitVars>>

\* Poller.Start, `if p.started { return }`
StartCheck(c) ==
    /\ startPc[c] = "idle"
    /\ calls[c] < MaxStarts
    /\ calls' = [calls EXCEPT ![c] = @ + 1]
    /\ startPc' = [startPc EXCEPT ![c] = IF started THEN "idle" ELSE "launch"]
    /\ UNCHANGED <<source, Fixed, saveCall, store, PollerVars, UnitVars>>

\* Poller.Start, `p.started = true; go func() {...}()` and return
StartLaunch(c) ==
    /\ startPc[c] = "launch"
    /\ started' = TRUE
    /\ pc' = [pc EXCEPT ![c] = "seed"]
    /\ startPc' = [startPc EXCEPT ![c] = "idle"]
    /\ UNCHANGED <<source, Fixed, saveCall, store, lastFetched, offset,
                   cancelled, calls, raw, results, err, tick>>

\* Poller.Stop
Stop ==
    /\ cancelled' = TRUE
    /\ UNCHANGED <<source, Fixed, saveCall, store, lastFetched, offset,
                   started, startPc, calls, UnitVars>>

\* Seed that gives backfill up when the repository fails
Seed_StopOnErr(c) ==
    /\ pc[c] = "seed"
    /\ \/ LET latest == GetLatestDelegation(store, now)
          IN /\ lastFetched' = IF latest.found /\ latest.Timestamp # EmptyTs
                               THEN latest.Timestamp ELSE lastFetched
             /\ bfLog' = IF bfLog.on
                         THEN [bfLog EXCEPT !.seed =
                                 <<[err |-> IF latest.found THEN "none"
                                                             ELSE "notfound",
                                    Timestamp |-> latest.Timestamp]>>]
                         ELSE bfLog
             /\ pc' = [pc EXCEPT ![c] = "bf_fetch"]
       \/ /\ lastFetched' = lastFetched
          /\ bfLog' = IF bfLog.on
                      THEN [bfLog EXCEPT !.seed =
                              <<[err |-> "store", Timestamp |-> EmptyTs]>>]
                      ELSE bfLog
          /\ pc' = [pc EXCEPT ![c] = "select"]
    /\ UNCHANGED <<source, Env, readCall, Probes,
                   saveCall, store, offset,
                   started, cancelled, startPc, calls, raw, results, err, tick>>

\* Seed that resumes from the newest delegation of the chain
Seed_FromHead(c) ==
    /\ pc[c] = "seed"
    /\ lastFetched' = IF source = <<>> THEN lastFetched
                      ELSE source[Len(source)].timestamp
    /\ bfLog' = bfLog
    /\ pc' = [pc EXCEPT ![c] = "bf_fetch"]
    /\ UNCHANGED <<source, Env, readCall, Probes,
                   saveCall, store, offset,
                   started, cancelled, startPc, calls, raw, results, err, tick>>

\* Poller.backfill, the seeding from the latest stored delegation
Seed(c) ==
    /\ pc[c] = "seed"
    /\ \/ LET latest == GetLatestDelegation(store, now)
          IN /\ lastFetched' = IF latest.found /\ latest.Timestamp # EmptyTs
                               THEN latest.Timestamp ELSE lastFetched
             /\ bfLog' = IF bfLog.on
                         THEN [bfLog EXCEPT !.seed =
                                 <<[err |-> IF latest.found THEN "none"
                                                             ELSE "notfound",
                                    Timestamp |-> latest.Timestamp]>>]
                         ELSE bfLog
       \/ /\ lastFetched' = lastFetched
          /\ bfLog' = IF bfLog.on
                      THEN [bfLog EXCEPT !.seed =
                              <<[err |-> "store", Timestamp |-> EmptyTs]>>]
                      ELSE bfLog
    /\ pc' = [pc EXCEPT ![c] = "bf_fetch"]
    /\ UNCHANGED <<source, Env, readCall, Probes,
                   saveCall, store, offset,
                   started, cancelled, startPc, calls, raw, results, err, tick>>

\* StoreDelegations up to the return of tzklClient.GetDelegations(off, from)
\* a service that does not return on the client's error and goes on to
\* translate and save what it has
ClientGet_SaveOnErr(c, off, from, pcOk, pcErr) ==
    /\ results' = [results EXCEPT ![c] = <<>>]
    /\ pc' = [pc EXCEPT ![c] = pcOk]
    /\ \/ /\ err' = [err EXCEPT ![c] = "transport"]
          /\ raw' = [raw EXCEPT ![c] = <<>>]
       \/ LET batch == ServeQuery(source, BuildQuery(off, from), pageSize)
          IN \E k \in 0..Len(batch) :
                /\ raw' = [raw EXCEPT ![c] = Corrupt(batch, k)]
                /\ err' = [err EXCEPT ![c] = "none"]
    /\ UNCHANGED <<source, Env, readCall, Probes, saveCall, store,
                   PollerVars, startPc, calls, tick>>

ClientGet(c, off, from, pcOk, pcErr) ==
    /\ results' = [results EXCEPT ![c] = <<>>]
    /\ \/ /\ err' = [err EXCEPT ![c] = "transport"]
          /\ raw' = [raw EXCEPT ![c] = <<>>]
          /\ pc' = [pc EXCEPT ![c] = pcErr]
       \/ LET batch == ServeQuery(source, BuildQuery(off, from), pageSize)
          IN \E k \in 0..Len(batch) :
                /\ raw' = [raw EXCEPT ![c] = Corrupt(batch, k)]
                /\ err' = [err EXCEPT ![c] = "none"]
                /\ pc' = [pc EXCEPT ![c] = pcOk]
    /\ UNCHANGED <<source, Env, readCall, Probes, saveCall, store,
                   PollerVars, startPc, calls, tick>>

\* backfill: p.client.StoreDelegations(0, p.lastFetched), the fetch
\* a backfill that passes its running offset to the service
BackfillFetch_WithOffset(c) ==
    /\ pc[c] = "bf_fetch"
    /\ ClientGet(c, offset, lastFetched, "bf_save", "bf_ret")
    /\ UNCHANGED bfLog

BackfillFetch(c) ==
    /\ pc[c] = "bf_fetch"
    /\ ClientGet(c, 0, lastFetched, "bf_save", "bf_ret")
    /\ bfLog' = IF bfLog.on
                THEN [bfLog EXCEPT !.calls =
                        Append(@, [offset |-> 0, from |-> lastFetched,
                                   batch |-> raw'[c], err |-> err'[c]])]
                ELSE bfLog

\* poll tick: p.client.StoreDelegations(p.offset, p.lastFetched), the fetch
PollFetch(c) ==
    /\ pc[c] = "poll_fetch"
    /\ ClientGet(c, offset, lastFetched, "poll_save", "poll_ret")
    /\ UNCHANGED bfLog

\* the records of a response that precede its first malformed record
ValidPrefix(rs) ==
    Take(rs, (CHOOSE i \in 1..Len(rs) :
                 /\ ~ParseOk(rs[i].timestamp)
                 /\ \A j \in 1..(i - 1) : ParseOk(rs[j].timestamp)) - 1)

\* StoreSave that writes each record as soon as it is translated
StoreSave_Partial(c) ==
    /\ pc[c] \in {"bf_save", "poll_save"}
    /\ pc' = [pc EXCEPT ![c] = IF pc[c] = "bf_save" THEN "bf_ret"
                                                    ELSE "poll_ret"]
    /\ raw' = [raw EXCEPT ![c] = <<>>]
    /\ IF ~AllParse(raw[c])
       THEN /\ results' = [results EXCEPT ![c] = <<>>]
            /\ err' = [err EXCEPT ![c] = "parse"]
            /\ store' = SaveBatch(store, TranslateAll(ValidPrefix(raw[c]))).rows
       ELSE /\ results' = [results EXCEPT ![c] = TranslateAll(raw[c])]
            /\ \/ LET r == SaveBatch(store, TranslateAll(raw[c]))
                  IN /\ store' = r.rows
                     /\ err' = [err EXCEPT ![c] = r.err]
               \/ /\ Len(raw[c]) > 0
                  /\ store' = store
                  /\ err' = [err EXCEPT ![c] = "store"]
    /\ UNCHANGED <<source, Fixed, saveCall, PollerVars, startPc, calls, tick>>

\* StoreDelegations after the fetch: translate every record, then SaveBatch
\* a service that returns only the records the store did not have
StoreSave_ReturnNew(c) ==
    /\ pc[c] \in {"bf_save", "poll_save"}
    /\ pc' = [pc EXCEPT ![c] = IF pc[c] = "bf_save" THEN "bf_ret"
                                                    ELSE "poll_ret"]
    /\ raw' = [raw EXCEPT ![c] = <<>>]
    /\ IF ~AllParse(raw[c])
       THEN /\ results' = [results EXCEPT ![c] = <<>>]
            /\ err' = [err EXCEPT ![c] = "parse"]
            /\ store' = store
       ELSE /\ results' =
                 [results EXCEPT ![c] =
                    SelectSeq(TranslateAll(raw[c]),
                              LAMBDA d : d.ID \notin {r.ID : r \in store})]
            /\ \/ LET r == SaveBatch(store, TranslateAll(raw[c]))
                  IN /\ store' = r.rows
                     /\ err' = [err EXCEPT ![c] = r.err]
               \/ /\ Len(raw[c]) > 0
                  /\ store' = store
                  /\ err' = [err EXCEPT ![c] = "store"]
    /\ UNCHANGED <<source, Fixed, saveCall, PollerVars, startPc, calls, tick>>

StoreSave(c) ==
    /\ pc[c] \in {"bf_save", "poll_save"}
    /\ pc' = [pc EXCEPT ![c] = IF pc[c] = "bf_save" THEN "bf_ret"
                                                    ELSE "poll_ret"]
    /\ raw' = [raw EXCEPT ![c] = <<>>]
    /\ IF ~AllParse(raw[c])
       THEN /\ results' = [results EXCEPT ![c] = <<>>]
            /\ err' = [err EXCEPT ![c] = "parse"]
            /\ store' = store
       ELSE /\ results' = [results EXCEPT ![c] = TranslateAll(raw[c])]
            /\ \/ LET r == SaveBatch(store, TranslateAll(raw[c]))
                  IN /\ store' = r.rows
                     /\ err' = [err EXCEPT ![c] = r.err]
               \/ /\ Len(raw[c]) > 0
                  /\ store' = store
                  /\ err' = [err EXCEPT ![c] = "store"]
    /\ UNCHANGED <<source, Fixed, saveCall, PollerVars, startPc, calls, tick>>

\* BackfillRet with the cursor moved to the greatest timestamp of the batch
BackfillRet_MaxTs(c) ==
    /\ pc[c] = "bf_ret"
    /\ IF err[c] # "none" \/ Len(results[c]) = 0
       THEN /\ pc' = [pc EXCEPT ![c] = "select"]
            /\ UNCHANGED <<lastFetched, offset>>
       ELSE /\ offset' = offset + Len(results[c])
            /\ lastFetched' = CHOOSE t \in {results[c][i].Timestamp :
                                              i \in 1..Len(results[c])} :
                                 \A i \in 1..Len(results[c]) :
                                    results[c][i].Timestamp <= t
            /\ pc' = [pc EXCEPT ![c] = "bf_fetch"]
    /\ UNCHANGED <<source, Fixed, saveCall, store, started, cancelled, startPc,
                   calls, raw, results, err, tick>>

\* BackfillRet without the `if err != nil` return
BackfillRet_IgnoreErr(c) ==
    /\ pc[c] = "bf_ret"
    /\ IF Len(results[c]) = 0
       THEN /\ pc' = [pc EXCEPT ![c] = "select"]
            /\ UNCHANGED <<lastFetched, offset>>
       ELSE /\ offset' = offset + Len(results[c])
            /\ lastFetched' = results[c][Len(results[c])].Timestamp
            /\ pc' = [pc EXCEPT ![c] = "bf_fetch"]
    /\ UNCHANGED <<source, Fixed, saveCall, store, started, cancelled, startPc,
                   calls, raw, results, err, tick>>

\* BackfillRet that stops the poller on an error, as the poll loop does
BackfillRet_StopOnErr(c) ==
    /\ pc[c] = "bf_ret"
    /\ IF err[c] # "none"
       THEN /\ pc' = [pc EXCEPT ![c] = "stopped"]
            /\ cancelled' = TRUE
            /\ UNCHANGED <<lastFetched, offset>>
       ELSE IF Len(results[c]) = 0
       THEN /\ pc' = [pc EXCEPT ![c] = "select"]
            /\ UNCHANGED <<lastFetched, offset, cancelled>>
       ELSE /\ offset' = offset + Len(results[c])
            /\ lastFetched' = results[c][Len(results[c])].Timestamp
            /\ pc' = [pc EXCEPT ![c] = "bf_fetch"]
            /\ UNCHANGED cancelled
    /\ UNCHANGED <<source, Fixed, saveCall, store, started, startPc,
                   calls, raw, results, err, tick>>

\* BackfillRet that fetches again after an error
BackfillRet_RetryOnErr(c) ==
    /\ pc[c] = "bf_ret"
    /\ IF err[c] # "none"
       THEN /\ pc' = [pc EXCEPT ![c] = "bf_fetch"]
            /\ UNCHANGED <<lastFetched, offset>>
       ELSE IF Len(results[c]) = 0
       THEN /\ pc' = [pc EXCEPT ![c] = "select"]
            /\ UNCHANGED <<lastFetched, offset>>
       ELSE /\ offset' = offset + Len(results[c])
            /\ lastFetched' = results[c][Len(results[c])].Timestamp
            /\ pc' = [pc EXCEPT ![c] = "bf_fetch"]
    /\ UNCHANGED <<source, Fixed, saveCall, store, started, cancelled, startPc,
                   calls, raw, results, err, tick>>

\* BackfillRet that counts one per batch instead of the batch size
BackfillRet_CountCalls(c) ==
    /\ pc[c] = "bf_ret"
    /\ IF err[c] # "none" \/ Len(results[c]) = 0
       THEN /\ pc' = [pc EXCEPT ![c] = "select"]
            /\ UNCHANGED <<lastFetched, offset>>
       ELSE /\ offset' = offset + 1
            /\ lastFetched' = results[c][Len(results[c])].Timestamp
            /\ pc' = [pc EXCEPT ![c] = "bf_fetch"]
    /\ UNCHANGED <<source, Fixed, saveCall, store, started, cancelled, startPc,
                   calls, raw, results, err, tick>>

\* BackfillRet that looks at the context before fetching again
BackfillRet_CheckCtx(c) ==
    /\ pc[c] = "bf_ret"
    /\ IF err[c] # "none" \/ Len(results[c]) = 0
       THEN /\ pc' = [pc EXCEPT ![c] = "select"]
            /\ UNCHANGED <<lastFetched, offset>>
       ELSE /\ offset' = offset + Len(results[c])
            /\ lastFetched' = results[c][Len(results[c])].Timestamp
            /\ pc' = [pc EXCEPT ![c] = IF cancelled THEN "select"
                                                    ELSE "bf_fetch"]
    /\ UNCHANGED <<source, Fixed, saveCall, store, started, cancelled, startPc,
                   calls, raw, results, err, tick>>

\* backfill after StoreDelegations returned: error, empty, or advance
BackfillRet(c) ==
    /\ pc[c] = "bf_ret"
    /\ IF err[c] # "none" \/ Len(results[c]) = 0
       THEN /\ pc' = [pc EXCEPT ![c] = "select"]
            /\ UNCHANGED <<lastFetched, offset>>
       ELSE /\ offset' = offset + Len(results[c])
            /\ lastFetched' = results[c][Len(results[c])].Timestamp
            /\ pc' = [pc EXCEPT ![c] = "bf_fetch"]
    /\ UNCHANGED <<source, Fixed, saveCall, store, started, cancelled, startPc,
                   calls, raw, results, err, tick>>

\* the ticker created after backfill delivers a tick into timer.C; a tick
\* takes a whole tickerInterval to come, a select with a ready case returns at
\* once, so no new tick arrives while the goroutine sits in select with the
\* context already done
\* a ticker created before backfill is called
TimerFire_BeforeBackfill(c) ==
    /\ pc[c] \in {"seed", "bf_fetch", "bf_save", "bf_ret", "select",
                  "poll_fetch", "poll_save", "poll_ret"}
    /\ ~tick[c]
    /\ ~(pc[c] = "select" /\ cancelled)
    /\ tick' = [tick EXCEPT ![c] = TRUE]
    /\ UNCHANGED <<source, Fixed, saveCall, store, PollerVars, startPc, calls,
                   pc, raw, results, err>>

TimerFire(c) ==
    /\ pc[c] \in {"select", "poll_fetch", "poll_save", "poll_ret"}
    /\ ~tick[c]
    /\ ~(pc[c] = "select" /\ cancelled)
    /\ tick' = [tick EXCEPT ![c] = TRUE]
    /\ UNCHANGED <<source, Fixed, saveCall, store, PollerVars, startPc, calls,
                   pc, raw, results, err>>

\* PollDone that looks at the context only when a tick has arrived
PollDone_OnTick(c) ==
    /\ pc[c] = "select"
    /\ cancelled
    /\ tick[c]
    /\ pc' = [pc EXCEPT ![c] = "stopped"]
    /\ tick' = [tick EXCEPT ![c] = FALSE]
    /\ UNCHANGED <<source, Fixed, saveCall, store, PollerVars, startPc, calls,
                   raw, results, err>>

\* select: case <-p.ctx.Done()
PollDone(c) ==
    /\ pc[c] = "select"
    /\ cancelled
    /\ pc' = [pc EXCEPT ![c] = "stopped"]
    /\ tick' = [tick EXCEPT ![c] = FALSE]
    /\ UNCHANGED <<source, Fixed, saveCall, store, PollerVars, startPc, calls,
                   raw, results, err>>

\* select: case <-timer.C
PollTick(c) ==
    /\ pc[c] = "select"
    /\ tick[c]
    /\ tick' = [tick EXCEPT ![c] = FALSE]
    /\ pc' = [pc EXCEPT ![c] = "poll_fetch"]
    /\ UNCHANGED <<source, Fixed, saveCall, store, PollerVars, startPc, calls,
                   raw, results, err>>

\* PollRet that advances the cursor whenever records came back
PollRet_AdvanceOnErr(c) ==
    /\ pc[c] = "poll_ret"
    /\ IF Len(results[c]) = 0 /\ err[c] # "none"
       THEN /\ cancelled' = TRUE
            /\ pc' = [pc EXCEPT ![c] = "stopped"]
            /\ tick' = [tick EXCEPT ![c] = FALSE]
            /\ UNCHANGED <<lastFetched, offset>>
       ELSE IF Len(results[c]) = 0
       THEN /\ pc' = [pc EXCEPT ![c] = "select"]
            /\ UNCHANGED <<lastFetched, offset, cancelled, tick>>
       ELSE /\ offset' = offset + Len(results[c])
            /\ lastFetched' = results[c][Len(results[c])].Timestamp
            /\ pc' = [pc EXCEPT ![c] = "select"]
            /\ UNCHANGED <<cancelled, tick>>
    /\ UNCHANGED <<source, Fixed, saveCall, store, started, startPc, calls,
                   raw, results, err>>

\* PollRet that logs the error and waits for the next tick
PollRet_NoStop(c) ==
    /\ pc[c] = "poll_ret"
    /\ IF err[c] # "none" \/ Len(results[c]) = 0
       THEN /\ pc' = [pc EXCEPT ![c] = "select"]
            /\ UNCHANGED <<lastFetched, offset>>
       ELSE /\ offset' = offset + Len(results[c])
            /\ lastFetched' = results[c][Len(results[c])].Timestamp
            /\ pc' = [pc EXCEPT ![c] = "select"]
    /\ UNCHANGED <<source, Fixed, saveCall, store, started, cancelled,
                   startPc, calls, raw, results, err, tick>>

\* PollRet that takes an empty batch as the end of the work
PollRet_StopOnEmpty(c) ==
    /\ pc[c] = "poll_ret"
    /\ IF err[c] # "none" \/ Len(results[c]) = 0
       THEN /\ cancelled' = TRUE
            /\ pc' = [pc EXCEPT ![c] = "stopped"]
            /\ tick' = [tick EXCEPT ![c] = FALSE]
            /\ UNCHANGED <<lastFetched, offset>>
       ELSE /\ offset' = offset + Len(results[c])
            /\ lastFetched' = results[c][Len(results[c])].Timestamp
            /\ pc' = [pc EXCEPT ![c] = "select"]
            /\ UNCHANGED <<cancelled, tick>>
    /\ UNCHANGED <<source, Fixed, saveCall, store, started, startPc, calls,
                   raw, results, err>>

\* poll tick after StoreDelegations returned: error, empty, or advance
PollRet(c) ==
    /\ pc[c] = "poll_ret"
    /\ IF err[c] # "none"
       THEN /\ cancelled' = TRUE
            /\ pc' = [pc EXCEPT ![c] = "stopped"]
            /\ tick' = [tick EXCEPT ![c] = FALSE]
            /\ UNCHANGED <<lastFetched, offset>>
       ELSE IF Len(results[c]) = 0
       THEN /\ pc' = [pc EXCEPT ![c] = "select"]
            /\ UNCHANGED <<lastFetched, offset, cancelled, tick>>
       ELSE /\ offset' = offset + Len(results[c])
            /\ lastFetched' = results[c][Len(results[c])].Timestamp
            /\ pc' = [pc EXCEPT ![c] = "select"]
            /\ UNCHANGED <<cancelled, tick>>
    /\ UNCHANGED <<source, Fixed, saveCall, store, started, startPc, calls,
                   raw, results, err>>

\* -------------------------------------------------------- specifications
Step(c) ==
    \/ StartCheck(c)
    \/ StartLaunch(c)
    \/ Seed(c)
    \/ BackfillFetch(c)
    \/ PollFetch(c)
    \/ StoreSave(c)
    \/ BackfillRet(c)
    \/ TimerFire(c)
    \/ PollDone(c)
    \/ PollTick(c)
    \/ PollRet(c)

\* the program: main() is the only caller of Start (calls are sequential)
Next ==
    \/ SourceAppend
    \/ Stop
    \/ Step(MainCaller)

Spec == Init /\ [][Next]_vars

\* the concurrent harness: several goroutines call Start on one Poller whose
\* source already holds its records
InitRace ==
    /\ source = [i \in 1..MaxSrc |-> DelegationResponse(i, i)]
    /\ pageSize \in 1..MaxPage
    /\ now = YearOf(MaxTs)
    /\ store = {}
    /\ lastFetched = EmptyTs
    /\ offset = 0
    /\ started = FALSE
    /\ cancelled = FALSE
    /\ startPc = [c \in Callers |-> "idle"]
    /\ calls = [c \in Callers |-> 0]
    /\ pc = [c \in Callers |-> "none"]
    /\ raw = [c \in Callers |-> <<>>]
    /\ results = [c \in Callers |-> <<>>]
    /\ err = [c \in Callers |-> "none"]
    /\ tick = [c \in Callers |-> FALSE]
    /\ saveCall = NoSave
    /\ bfLog = NoLog
    /\ readCall = NoRead
    /\ getCall = NoGet
    /\ tx = NoTx
    /\ parentDone = FALSE

NextRace == \E c \in Callers : Step(c)

SpecRace == InitRace /\ [][NextRace]_vars

\* the repository harness: SaveBatch called directly with arbitrary batches,
\* as the repository tests do on a fresh database
Row(id, v) ==
    [ID |-> id, Timestamp |-> v, Amount |-> 1000 * v, Delegator |-> 10 + v,
     Level |-> 100 + v, Year |-> YearOf(v)]

\* two ids, three payloads for each
Rows == {Row(id, v) : id \in {1, 2}, v \in {1, 2, 3}}

Batches == UNION {[1..n -> Rows] : n \in 0..MaxBatch}

RepoSaveBatch ==
    \E ds \in Batches :
       LET r == SaveBatch(store, ds)
       IN /\ store' = r.rows
          /\ saveCall' = [batch |-> ds, err |-> r.err]
          /\ UNCHANGED <<source, Fixed, PollerVars, startPc, calls, UnitVars>>

NextSave == RepoSaveBatch

SpecSave == Init /\ [][NextSave]_vars

\* the program under the scheduling the Go runtime gives the goroutine: a
\* runnable step of the poller is eventually taken and the ticker keeps firing
Fairness ==
    /\ WF_vars(Seed(MainCaller))
    /\ WF_vars(BackfillFetch(MainCaller))
    /\ WF_vars(PollFetch(MainCaller))
    /\ WF_vars(StoreSave(MainCaller))
    /\ WF_vars(BackfillRet(MainCaller))
    /\ WF_vars(TimerFire(MainCaller))
    /\ WF_vars(PollDone(MainCaller))
    /\ WF_vars(PollTick(MainCaller))
    /\ WF_vars(PollRet(MainCaller))

FairSpec == Init /\ [][Next]_vars /\ Fairness

\* the poller harness of the tests: the source holds all its records before
\* Start, the mocks record what backfill asks and gets
Contents == UNION {[1..n -> Timestamps] : n \in 0..MaxSrc}

SourceOf(tss) == [i \in 1..Len(tss) |-> DelegationResponse(i, tss[i])]

Recording == [on |-> TRUE, seed |-> <<>>, calls |-> <<>>]

InitBackfill ==
    /\ source \in {SourceOf(tss) : tss \in Contents}
    /\ pageSize \in 1..MaxPage
    /\ now = YearOf(MaxTs)
    /\ store = {}
    /\ lastFetched = EmptyTs
    /\ offset = 0
    /\ started = FALSE
    /\ cancelled = FALSE
    /\ startPc = [c \in Callers |-> "idle"]
    /\ calls = [c \in Callers |-> 0]
    /\ pc = [c \in Callers |-> "none"]
    /\ raw = [c \in Callers |-> <<>>]
    /\ results = [c \in Callers |-> <<>>]
    /\ err = [c \in Callers |-> "none"]
    /\ tick = [c \in Callers |-> FALSE]
    /\ saveCall = NoSave
    /\ bfLog = Recording
    /\ readCall = NoRead
    /\ getCall = NoGet
    /\ tx = NoTx
    /\ parentDone = FALSE

\* the tick interval outlasts the harness: the ticker never fires in it
NextBackfill ==
    \/ Stop
    \/ StartCheck(MainCaller)
    \/ StartLaunch(MainCaller)
    \/ Seed(MainCaller)
    \/ BackfillFetch(MainCaller)
    \/ StoreSave(MainCaller)
    \/ BackfillRet(MainCaller)
    \/ PollDone(MainCaller)

SpecBackfill == InitBackfill /\ [][NextBackfill]_vars

FairBackfill == InitBackfill /\ [][NextBackfill]_vars /\ Fairness

\* the program started against a chain that already holds its delegations,
\* in the order of the chain: ids and timestamps ascending together
Chains == {tss \in Contents :
             \A i \in 1..(Len(tss) - 1) : tss[i] <= tss[i + 1]}

InitLoaded ==
    /\ source \in {SourceOf(tss) : tss \in Chains}
    /\ pageSize \in 1..MaxPage
    /\ now = YearOf(MaxTs)
    /\ store = {}
    /\ lastFetched = EmptyTs
    /\ offset = 0
    /\ started = FALSE
    /\ cancelled = FALSE
    /\ startPc = [c \in Callers |-> "idle"]
    /\ calls = [c \in Callers |-> 0]
    /\ pc = [c \in Callers |-> "none"]
    /\ raw = [c \in Callers |-> <<>>]
    /\ results = [c \in Callers |-> <<>>]
    /\ err = [c \in Callers |-> "none"]
    /\ tick = [c \in Callers |-> FALSE]
    /\ saveCall = NoSave
    /\ bfLog = NoLog
    /\ readCall = NoRead
    /\ getCall = NoGet
    /\ tx = NoTx
    /\ parentDone = FALSE

NextLoaded ==
    \/ Stop
    \/ Step(MainCaller)

FairLoaded == InitLoaded /\ [][NextLoaded]_vars /\ Fairness

\* the select of the poll loop picks at random among its ready cases, so a
\* case that is ready again and again is eventually picked
FairSelect ==
    /\ InitLoaded
    /\ [][NextLoaded]_vars
    /\ Fairness
    /\ SF_vars(PollDone(MainCaller))

\* the same harness on a database that an earlier run has filled: the rows of
\* the first records of the source, at any date of the modelled years
StoredPrefix(src, j) == {Translate(src[i]) : i \in 1..j}

InitSeeded ==
    /\ source \in {SourceOf(tss) : tss \in Contents}
    /\ pageSize \in 1..MaxPage
    /\ now \in {YearOf(ts) : ts \in Timestamps}
    /\ store \in {StoredPrefix(source, j) : j \in 0..Len(source)}
    /\ lastFetched = EmptyTs
    /\ offset = 0
    /\ started = FALSE
    /\ cancelled = FALSE
    /\ startPc = [c \in Callers |-> "idle"]
    /\ calls = [c \in Callers |-> 0]
    /\ pc = [c \in Callers |-> "none"]
    /\ raw = [c \in Callers |-> <<>>]
    /\ results = [c \in Callers |-> <<>>]
    /\ err = [c \in Callers |-> "none"]
    /\ tick = [c \in Callers |-> FALSE]
    /\ saveCall = NoSave
    /\ bfLog = Recording
    /\ readCall = NoRead
    /\ getCall = NoGet
    /\ tx = NoTx
    /\ parentDone = FALSE

SpecSeed == InitSeeded /\ [][NextBackfill]_vars

\* the service harness: StoreDelegations on a fresh database with a mock
\* client that answers with an arbitrary response, as the service tests do
RawRecords ==
    [id : {1, 2}, timestamp : Timestamps \cup {EmptyTs, BadTs},
     amount : {1000, 2000}, sender : {11, 12}, level : {101}]

RawBatches == UNION {[1..n -> RawRecords] : n \in 0..MaxBatch}

InitService ==
    /\ source = <<>>
    /\ pageSize = MaxPage
    /\ now = YearOf(MaxTs)
    /\ store = {}
    /\ lastFetched = EmptyTs
    /\ offset = 0
    /\ started = FALSE
    /\ cancelled = FALSE
    /\ startPc = [c \in Callers |-> "idle"]
    /\ calls = [c \in Callers |-> 0]
    /\ pc = [c \in Callers |-> "none"]
    /\ raw = [c \in Callers |-> <<>>]
    /\ results = [c \in Callers |-> <<>>]
    /\ err = [c \in Callers |-> "none"]
    /\ tick = [c \in Callers |-> FALSE]
    /\ saveCall = NoSave
    /\ bfLog = NoLog
    /\ readCall = NoRead
    /\ getCall = NoGet
    /\ tx = NoTx
    /\ parentDone = FALSE

\* the mock client's GetDelegations returns the prepared response
MockClientGet ==
    /\ pc[MainCaller] = "none"
    /\ \E rs \in RawBatches : raw' = [raw EXCEPT ![MainCaller] = rs]
    /\ pc' = [pc EXCEPT ![MainCaller] = "bf_save"]
    /\ UNCHANGED <<source, Fixed, saveCall, store, PollerVars, startPc, calls,
                   results, err, tick>>

NextService ==
    \/ MockClientGet
    \/ StoreSave(MainCaller)

SpecService == InitService /\ [][NextService]_vars

\* the process dies at any point once the poller runs and main() runs again:
\* a new Poller on the database file the dead process has left
Crash ==
    /\ pc[MainCaller] # "none"
    /\ lastFetched' = EmptyTs
    /\ offset' = 0
    /\ started' = FALSE
    /\ cancelled' = FALSE
    /\ startPc' = [c \in Callers |-> "idle"]
    /\ calls' = [c \in Callers |-> 0]
    /\ pc' = [c \in Callers |-> "none"]
    /\ raw' = [c \in Callers |-> <<>>]
    /\ results' = [c \in Callers |-> <<>>]
    /\ err' = [c \in Callers |-> "none"]
    /\ tick' = [c \in Callers |-> FALSE]
    /\ UNCHANGED <<source, Fixed, saveCall, store>>

NextCrash ==
    \/ Crash
    \/ Stop
    \/ Step(MainCaller)

InitCrash ==
    /\ source \in {SourceOf(tss) : tss \in Contents}
    /\ pageSize \in 1..MaxPage
    /\ now = YearOf(MaxTs)
    /\ store = {}
    /\ lastFetched = EmptyTs
    /\ offset = 0
    /\ started = FALSE
    /\ cancelled = FALSE
    /\ startPc = [c \in Callers |-> "idle"]
    /\ calls = [c \in Callers |-> 0]
    /\ pc = [c \in Callers |-> "none"]
    /\ raw = [c \in Callers |-> <<>>]
    /\ results = [c \in Callers |-> <<>>]
    /\ err = [c \in Callers |-> "none"]
    /\ tick = [c \in Callers |-> FALSE]
    /\ saveCall = NoSave
    /\ bfLog = NoLog
    /\ readCall = NoRead
    /\ getCall = NoGet
    /\ tx = NoTx
    /\ parentDone = FALSE

SpecCrash == InitCrash /\ [][NextCrash]_vars

\* the repository read harness: GetDelegations called directly on a table
\* that the test has filled, as the repository tests do; rows 1 and 2 share
\* the oldest timestamp
ReadRow(id, year) ==
    [ID |-> id, Timestamp |-> IF id = 2 THEN 1 ELSE id, Amount |-> 1000 * id,
     Delegator |-> 10 + id, Level |-> 100 + id, Year |-> year]

\* n rows of the year 2018 and m rows of the year 2019
TableOf(n, m) ==
    {ReadRow(i, BaseYear) : i \in 1..n}
      \cup {ReadRow(100 + i, BaseYear + 1) : i \in 1..m}

ReadSizes == {0, 1, 3, PageLimit, PageLimit + 1, PageLimit + 2}

ReadOffsets == {0 - 1, 0, 1, 2, PageLimit, PageLimit + 1, PageLimit + 5}

ReadYears == {BaseYear - 1, BaseYear, BaseYear + 1, BaseYear + 2}

InitRead ==
    /\ source = <<>>
    /\ pageSize = MaxPage
    /\ now = YearOf(MaxTs)
    /\ store \in {TableOf(n, m) : n \in ReadSizes, m \in {0, 2}}
    /\ lastFetched = EmptyTs
    /\ offset = 0
    /\ started = FALSE
    /\ cancelled = FALSE
    /\ startPc = [c \in Callers |-> "idle"]
    /\ calls = [c \in Callers |-> 0]
    /\ pc = [c \in Callers |-> "none"]
    /\ raw = [c \in Callers |-> <<>>]
    /\ results = [c \in Callers |-> <<>>]
    /\ err = [c \in Callers |-> "none"]
    /\ tick = [c \in Callers |-> FALSE]
    /\ saveCall = NoSave
    /\ bfLog = NoLog
    /\ readCall = NoRead
    /\ getCall = NoGet
    /\ tx = NoTx
    /\ parentDone = FALSE

\* Database.GetDelegations(year, offset): the page, or the failure of the
\* database to run the query
RepoGetDelegations ==
    \E year \in ReadYears, off \in ReadOffsets :
       /\ \/ \E tie \in {"asc", "desc"} :
                readCall' = [kind |-> "repo", req |-> <<>>, year |-> year,
                             offset |-> off, read |-> TRUE,
                             page |-> GetDelegations(store, year, off, tie),
                             err |-> "none", status |-> 0]
          \/ readCall' = [kind |-> "repo", req |-> <<>>, year |-> year,
                          offset |-> off, read |-> TRUE, page |-> <<>>,
                          err |-> "store", status |-> 0]
       /\ UNCHANGED <<source, Env, bfLog, Probes, saveCall, store,
                      PollerVars, startPc, calls, UnitVars>>

NextRead == RepoGetDelegations

SpecRead == InitRead /\ [][NextRead]_vars

\* the read endpoint. A query parameter is missing, or text that
\* strconv.Atoi rejects, or the decimal form of an integer
Missing == [kind |-> "missing", val |-> 0]

Text == [kind |-> "text", val |-> 0]

Number(v) == [kind |-> "int", val |-> v]

YearParams(thisYear) ==
    {Missing, Text}
      \cup {Number(y) : y \in {0, BaseYear - 1, BaseYear, thisYear,
                               thisYear + 1}}

OffsetParams == {Missing, Text, Number(0 - 1), Number(1)}

\* strconv.Atoi: [ok, val]
Atoi(p) == [ok |-> p.kind = "int", val |-> IF p.kind = "int" THEN p.val ELSE 0]

\* verifyYear without the upper limit
verifyYear_NoUpper(parsed, thisYear) ==
    IF ~parsed.ok THEN [ok |-> FALSE, val |-> 0]
    ELSE IF parsed.val < BaseYear THEN [ok |-> FALSE, val |-> 0]
    ELSE [ok |-> TRUE, val |-> parsed.val]

\* verifyYear(year, err): [ok, val]
verifyYear(parsed, thisYear) ==
    IF ~parsed.ok THEN [ok |-> FALSE, val |-> 0]
    ELSE IF parsed.val < BaseYear \/ parsed.val > thisYear
         THEN [ok |-> FALSE, val |-> 0]
    ELSE [ok |-> TRUE, val |-> parsed.val]

\* http.StatusBadRequest, http.StatusUnprocessableEntity, http.StatusOK
BadRequest == 400

Unprocessable == 422

StatusOK == 200

\* a handler that ends polling when the store fails
handleGetDelegations_StopOnErr(yp, op) ==
    /\ readCall' = [kind |-> "api", req |-> <<yp, op>>, year |-> now,
                    offset |-> 0, read |-> TRUE, page |-> <<>>,
                    err |-> "store", status |-> Unprocessable]
    /\ cancelled' = TRUE
    /\ UNCHANGED <<source, Env, bfLog, Probes,
                   saveCall, store, lastFetched,
                   offset, started, startPc, calls, UnitVars>>

\* ApiServer.handleGetDelegations, one request from its parameters yp and
\* op to its response
handleGetDelegations(yp, op) ==
       LET y == IF yp.kind = "missing" THEN [ok |-> TRUE, val |-> now]
                ELSE verifyYear(Atoi(yp), now)
           o == IF op.kind = "missing" THEN [ok |-> TRUE, val |-> 0]
                ELSE Atoi(op)
           Answer(year, off, read, page, e, status) ==
               [kind |-> "api", req |-> <<yp, op>>, year |-> year,
                offset |-> off, read |-> read, page |-> page, err |-> e,
                status |-> status]
       IN /\ IF ~y.ok
             THEN readCall' = Answer(0, 0, FALSE, <<>>, "year", BadRequest)
             ELSE IF ~o.ok
             THEN readCall' = Answer(y.val, 0, FALSE, <<>>, "offset",
                                     BadRequest)
             ELSE \/ \E tie \in {"asc", "desc"} :
                        readCall' =
                          Answer(y.val, o.val, TRUE,
                                 GetDelegations(store, y.val, o.val, tie),
                                 "none", StatusOK)
                  \/ readCall' = Answer(y.val, o.val, TRUE, <<>>, "store",
                                        Unprocessable)
          /\ UNCHANGED <<source, Env, bfLog, Probes, saveCall, store,
                         PollerVars, startPc, calls, UnitVars>>

\* GET /xtz/delegations with every kind of year and offset
ApiGet ==
    \E yp \in YearParams(now), op \in OffsetParams :
       handleGetDelegations(yp, op)

\* the endpoint alone, over the tables of the read harness
NextHandler == ApiGet

SpecHandler == InitRead /\ [][NextHandler]_vars

\* GET /xtz/delegations with each parameter missing or unreadable: requests
\* that are answered from the store, that fail validation, or that hit a
\* store error
ApiGetPlain ==
    \E yp \in {Missing, Text}, op \in {Missing, Text} :
       handleGetDelegations(yp, op)

\* the program: the poller of main() and the read endpoint side by side, on
\* a chain that already holds its delegations
NextApi ==
    \/ ApiGetPlain
    \/ Stop
    \/ Step(MainCaller)

SpecApi == InitLoaded /\ [][NextApi]_vars

\* the client alone against a server that answers: the arguments of the
\* URL construction test and around them
OffsetArgs == (0 - 1)..MaxSrc

TimestampArgs == {EmptyTs} \cup Timestamps

\* TzktClient.GetDelegations(offset, fromTimestamp): the query it sends and
\* the records the server answers with
TzktGetDelegations ==
    \E off \in OffsetArgs, from \in TimestampArgs :
       LET q == BuildQuery(off, from)
       IN /\ getCall' = [sent |-> TRUE, offset |-> off, from |-> from,
                         query |-> q,
                         batch |-> ServeQuery(source, q, pageSize)]
          /\ UNCHANGED <<source, Env, bfLog, readCall, tx, saveCall,
                         store, PollerVars, startPc, calls, UnitVars>>

NextClient == TzktGetDelegations

SpecClient == InitLoaded /\ [][NextClient]_vars

\* Database.SaveBatch step by step beside a reader. The transaction works
\* on its own view of the table (work); the table other connections read
\* (store) changes at COMMIT only. SQLite gives a reader on another
\* connection the committed table.
\* db.Transaction: BEGIN; an empty batch returns before it
TxBegin ==
    /\ ~tx.open
    /\ \E ds \in Batches :
          IF Len(ds) = 0
          THEN tx' = NoTx
          ELSE tx' = [open |-> TRUE, base |-> store, batch |-> ds,
                      work |-> store, done |-> 0, err |-> "none",
                      seenAt |-> 0 - 1]
    /\ UNCHANGED <<source, Env, bfLog, readCall, getCall, saveCall,
                   store, PollerVars, startPc, calls, UnitVars>>

\* a SaveBatch that creates the records one by one outside a transaction
TxInsert_AutoCommit ==
    /\ tx.open
    /\ tx.err = "none"
    /\ tx.done < Len(tx.batch)
    /\ \/ LET r == InsertRow([rows |-> store, err |-> "none"],
                             tx.batch[tx.done + 1])
          IN /\ tx' = [tx EXCEPT !.work = r.rows, !.done = tx.done + 1]
             /\ store' = r.rows
       \/ /\ tx' = [tx EXCEPT !.err = "store"]
          /\ UNCHANGED store
    /\ UNCHANGED <<source, Env, bfLog, readCall, getCall, saveCall,
                   PollerVars, startPc, calls, UnitVars>>

\* the INSERT ... ON CONFLICT (id) DO NOTHING of Create(&delegations), row
\* after row, or the database failing the statement
TxInsert ==
    /\ tx.open
    /\ tx.err = "none"
    /\ tx.done < Len(tx.batch)
    /\ \/ LET r == InsertRow([rows |-> tx.work, err |-> "none"],
                             tx.batch[tx.done + 1])
          IN tx' = [tx EXCEPT !.work = r.rows, !.done = tx.done + 1]
       \/ tx' = [tx EXCEPT !.err = "store"]
    /\ UNCHANGED store
    /\ UNCHANGED <<source, Env, bfLog, readCall, getCall, saveCall,
                   PollerVars, startPc, calls, UnitVars>>

\* the end of db.Transaction: COMMIT when the function returned nil (the
\* commit itself can fail), ROLLBACK when it returned the error; the closed
\* transaction keeps the error SaveBatch returns
TxEnd ==
    /\ tx.open
    /\ \/ /\ tx.err = "none"
          /\ tx.done = Len(tx.batch)
          /\ \/ /\ store' = tx.work
                /\ tx' = NoTx
             \/ /\ UNCHANGED store
                /\ tx' = [NoTx EXCEPT !.err = "store"]
       \/ /\ tx.err # "none"
          /\ UNCHANGED store
          /\ tx' = [NoTx EXCEPT !.err = tx.err]
    /\ UNCHANGED <<source, Env, bfLog, readCall, getCall, saveCall,
                   PollerVars, startPc, calls, UnitVars>>

\* Database.GetDelegations on another connection, at any moment; seenAt
\* notes how many rows the open transaction had inserted by then
ConcurrentRead ==
    /\ \E year \in {BaseYear, BaseYear + 1}, off \in {0} :
          \/ \E tie \in {"asc", "desc"} :
                readCall' = [kind |-> "repo", req |-> <<>>, year |-> year,
                             offset |-> off, read |-> TRUE,
                             page |-> GetDelegations(store, year, off, tie),
                             err |-> "none", status |-> 0]
          \/ readCall' = [kind |-> "repo", req |-> <<>>, year |-> year,
                          offset |-> off, read |-> TRUE, page |-> <<>>,
                          err |-> "store", status |-> 0]
    /\ tx' = IF tx.open THEN [tx EXCEPT !.seenAt = tx.done] ELSE tx
    /\ UNCHANGED <<source, Env, bfLog, getCall, saveCall, store,
                   PollerVars, startPc, calls, UnitVars>>

NextTx ==
    \/ TxBegin
    \/ TxInsert
    \/ TxEnd
    \/ ConcurrentRead

\* an empty table; the source plays no part
InitTx ==
    /\ Init
    /\ pageSize = MaxPage

SpecTx == InitTx /\ [][NextTx]_vars

\* the cancel function of the context given to NewPoller: the poller's
\* context, made from it by context.WithCancel, is done with it
CancelParent ==
    /\ parentDone' = TRUE
    /\ cancelled' = TRUE
    /\ UNCHANGED <<source, pageSize, now, bfLog, readCall, Probes, saveCall,
                   store, lastFetched, offset, started, startPc, calls,
                   UnitVars>>

\* a poller made from a context that its owner can cancel, on a chain that
\* already holds its delegations
NextParent ==
    \/ CancelParent
    \/ Stop
    \/ Step(MainCaller)

SpecParent == InitLoaded /\ [][NextParent]_vars

\* the latest-record query alone: tables of up to three rows of 2018, the
\* first two of them with one timestamp, and up to two rows of 2019
LatestYears == ReadYears \cup {0}

InitLatest ==
    /\ source = <<>>
    /\ pageSize = MaxPage
    /\ now = YearOf(MaxTs)
    /\ store \in {TableOf(n, m) : n \in 0..3, m \in 0..2}
    /\ lastFetched = EmptyTs
    /\ offset = 0
    /\ started = FALSE
    /\ cancelled = FALSE
    /\ startPc = [c \in Callers |-> "idle"]
    /\ calls = [c \in Callers |-> 0]
    /\ pc = [c \in Callers |-> "none"]
    /\ raw = [c \in Callers |-> <<>>]
    /\ results = [c \in Callers |-> <<>>]
    /\ err = [c \in Callers |-> "none"]
    /\ tick = [c \in Callers |-> FALSE]
    /\ saveCall = NoSave
    /\ bfLog = NoLog
    /\ readCall = NoRead
    /\ getCall = NoGet
    /\ tx = NoTx
    /\ parentDone = FALSE

\* Database.GetLatestDelegation(year): the record (id and timestamp are
\* selected, nothing else) and the error; page holds the record
RepoGetLatestDelegation ==
    \E year \in LatestYears :
       /\ \/ LET latest == GetLatestDelegation(store, year)
             IN readCall' = [kind |-> "latest", req |-> <<>>, year |-> year,
                             offset |-> 0, read |-> TRUE,
                             page |-> <<[ID |-> latest.ID,
                                         Timestamp |-> latest.Timestamp]>>,
                             err |-> IF latest.found THEN "none"
                                     ELSE "notfound",
                             status |-> 0]
          \/ readCall' = [kind |-> "latest", req |-> <<>>, year |-> year,
                          offset |-> 0, read |-> TRUE,
                          page |-> <<[ID |-> 0, Timestamp |-> EmptyTs]>>,
                          err |-> "store", status |-> 0]
       /\ UNCHANGED <<source, Env, bfLog, Probes, saveCall, store,
                      PollerVars, startPc, calls, UnitVars>>

NextLatest == RepoGetLatestDelegation

SpecLatest == InitLatest /\ [][NextLatest]_vars

\* ---------------------------------------------------------------- claims
Cursor == <<lastFetched, offset>>

RetPcs == {"bf_ret", "poll_ret"}

InCallPcs == {"bf_fetch", "bf_save", "poll_fetch", "poll_save"}

LastTs(ds) == ds[Len(ds)].Timestamp

RowIds(st) == {r.ID : r \in st}

BatchIds(ds) == {ds[i].ID : i \in 1..Len(ds)}

Ascending(src) ==
    \A i, j \in 1..Len(src) : i < j => src[i].timestamp <= src[j].timestamp

\* C1: a successful non-empty fetch-and-apply (backfill or poll tick) sets
\* lastFetched to the timestamp of the last element of the returned batch and
\* increases offset by exactly the number of records of the batch.
C1_CursorAdvance ==
    [][\A c \in Callers :
          (/\ pc[c] \in RetPcs
           /\ pc'[c] # pc[c]
           /\ err[c] = "none"
           /\ results[c] # <<>>)
          => /\ lastFetched' = LastTs(results[c])
             /\ offset' = offset + Len(results[c])]_vars

\* a poll tick has applied a batch whose last timestamp is not its greatest
C1_Witness ==
    \E c \in Callers :
       /\ pc[c] = "select"
       /\ err[c] = "none"
       /\ results[c] # <<>>
       /\ offset = Len(results[c])
       /\ lastFetched = LastTs(results[c])
       /\ \E i \in 1..Len(results[c]) : results[c][i].Timestamp > lastFetched

\* C2: SaveBatch is idempotent on id, first write wins: every call returns no
\* error, keeps every stored row as it is, leaves one row per id, and stores
\* for each new id the first row of the batch that carries it.
C2_FirstWriteWins ==
    [][saveCall' # saveCall \/ store' # store =>
          /\ saveCall'.err = "none"
          /\ \A r \in store : r \in store'
          /\ \A r1, r2 \in store' : r1.ID = r2.ID => r1 = r2
          /\ RowIds(store') = RowIds(store) \cup BatchIds(saveCall'.batch)
          /\ \A r \in store' \ store :
                \E i \in 1..Len(saveCall'.batch) :
                   /\ saveCall'.batch[i] = r
                   /\ \A j \in 1..(i - 1) : saveCall'.batch[j].ID # r.ID]_vars

\* a batch that carries one id twice, with two payloads, has been saved when
\* that id was in the store with a third payload
C2_Witness ==
    /\ saveCall.err = "none"
    /\ \E r \in store :
          \E i, j \in 1..Len(saveCall.batch) :
             /\ i < j
             /\ saveCall.batch[i].ID = r.ID
             /\ saveCall.batch[j].ID = r.ID
             /\ saveCall.batch[i] # saveCall.batch[j]
             /\ saveCall.batch[i] # r
             /\ saveCall.batch[j] # r

\* C3: for any interleaving of concurrent Start() calls exactly one
\* backfill-then-poll goroutine is launched.
C3_SingleUnit == Cardinality({c \in Callers : pc[c] # "none"}) <= 1

\* C4: a Start() on a poller that is already started launches nothing, leaves
\* the goroutine, the cursor and the store as they are, and returns at once.
C4_StartIdempotent ==
    [][\A c \in Callers :
          (startPc[c] = "idle" /\ calls'[c] # calls[c] /\ started)
          => /\ startPc'[c] = "idle"
             /\ UNCHANGED <<pc, raw, results, err, tick, Cursor, store,
                            started, cancelled>>]_vars

\* the second Start() has returned while the backfill of the first is under way
C4_Witness ==
    /\ calls[MainCaller] = 2
    /\ startPc[MainCaller] = "idle"
    /\ started
    /\ pc[MainCaller] = "bf_save"
    /\ raw[MainCaller] # <<>>

\* C5: in steady-state polling, with ticks firing and no fetch failing, every
\* source record with a timestamp greater than lastFetched is eventually in
\* the store, whatever the running offset.
C5_PollEventuallyStores ==
    \A i \in 1..MaxSrc :
       (/\ pc[MainCaller] = "select"
        /\ Len(source) >= i
        /\ Ascending(source)
        /\ source[i].timestamp > lastFetched)
       ~> (\/ i \in RowIds(store)
           \/ cancelled
           \/ err[MainCaller] # "none"
           \/ ~Ascending(source))

\* C6: from an empty store and cursor, when backfill ends on an empty batch the
\* store holds every record of the source, for timestamp-ascending contents.
C6_BackfillComplete ==
    [][\A c \in Callers :
          (/\ pc[c] = "bf_fetch"
           /\ pc'[c] = "bf_save"
           /\ raw'[c] = <<>>
           /\ Ascending(source))
          => \A i \in 1..Len(source) : source[i].id \in RowIds(store)]_vars

\* C7: whenever the cursor is advanced for a batch, the store write of that
\* batch has returned without error and every id of it is in the store; the
\* cursor never moves while a write is pending or after it failed.
C7_WriteThenAdvance ==
    [][(\/ offset' # offset
        \/ (lastFetched' # lastFetched /\ \A c \in Callers : pc[c] # "seed"))
       => \E c \in Callers :
             /\ pc[c] \in RetPcs
             /\ pc'[c] # pc[c]
             /\ err[c] = "none"
             /\ raw[c] = <<>>
             /\ results[c] # <<>>
             /\ BatchIds(results[c]) \subseteq RowIds(store)
             /\ store' = store]_vars

\* the cursor has been advanced for a batch, and the batch is in the store
C7_Witness ==
    \E c \in Callers :
       /\ pc[c] = "bf_fetch"
       /\ results[c] # <<>>
       /\ offset = Len(results[c])
       /\ lastFetched = LastTs(results[c])
       /\ BatchIds(results[c]) \subseteq RowIds(store)

\* C8: a fetch-and-apply that returns an error leaves offset and lastFetched
\* as they were before the step, in backfill and in polling, also when it
\* returned translated records.
C8_ErrorKeepsCursor ==
    [][\A c \in Callers :
          /\ (pc[c] \in InCallPcs => Cursor' = Cursor)
          /\ (pc[c] \in RetPcs /\ err[c] # "none" => Cursor' = Cursor)]_vars

\* a step has returned a store error together with records, and the cursor
\* is still empty
C8_Witness ==
    \E c \in Callers :
       /\ pc[c] \in {"select", "stopped"}
       /\ err[c] = "store"
       /\ results[c] # <<>>
       /\ offset = 0
       /\ lastFetched = EmptyTs

\* C9: an error on a poll tick stops the poller for good: the context is
\* cancelled, the loop has exited, nothing is fetched or written afterwards,
\* and a later Stop() changes nothing.
C9_PollErrorStops ==
    [][\A c \in Callers :
          /\ (pc[c] = "poll_ret" /\ pc'[c] # pc[c] /\ err[c] # "none"
                => cancelled' /\ pc'[c] = "stopped")
          /\ (pc[c] = "stopped"
                => /\ cancelled
                   /\ UNCHANGED <<pc, raw, results, err, tick, Cursor, store,
                                  started, cancelled>>)]_vars

\* the poller stopped itself on a failed tick while the source holds a record
\* that is not in the store
C9_Witness ==
    \E c \in Callers :
       /\ pc[c] = "stopped"
       /\ err[c] = "transport"
       /\ cancelled
       /\ \E i \in 1..Len(source) : source[i].id \notin RowIds(store)

\* C10: an error inside backfill ends backfill without retry and without
\* cancelling the context, and the goroutine goes on to the poll loop with
\* the cursor reached so far.
C10_BackfillErrorGoesOn ==
    [][\A c \in Callers :
          (pc[c] = "bf_ret" /\ pc'[c] # pc[c] /\ err[c] # "none")
          => /\ pc'[c] = "select"
             /\ cancelled' = cancelled
             /\ Cursor' = Cursor]_vars

\* after a backfill that advanced the cursor and then failed, the poller is on
\* a poll tick and the context is not cancelled
C10_Witness ==
    \E c \in Callers :
       /\ pc[c] = "poll_fetch"
       /\ err[c] # "none"
       /\ ~cancelled
       /\ offset > 0

BackfillPcs == {"seed", "bf_fetch", "bf_save", "bf_ret"}

LastCall == bfLog.calls[Len(bfLog.calls)]

\* C11: backfill terminates. Whenever StoreDelegations has returned to
\* backfill, an error or an empty batch makes backfill return and the unit
\* enter the poll loop, a non-empty batch makes it fetch again; and every
\* backfill that has begun reaches the poll loop.
C11_BackfillTerminates ==
    /\ [][\A c \in Callers :
             (pc[c] = "bf_ret" /\ pc'[c] # pc[c])
             => pc'[c] = IF err[c] # "none" \/ results[c] = <<>>
                         THEN "select" ELSE "bf_fetch"]_vars
    /\ (pc[MainCaller] \in BackfillPcs) ~> (pc[MainCaller] = "select")

\* backfill has returned on the empty batch that followed two non-empty ones
C11_Witness ==
    /\ pc[MainCaller] = "select"
    /\ err[MainCaller] = "none"
    /\ Len(bfLog.calls) = 3
    /\ LastCall.batch = <<>>
    /\ LastCall.err = "none"

RECURSIVE SumBatchLen(_)
SumBatchLen(cs) ==
    IF cs = <<>> THEN 0 ELSE Len(Head(cs).batch) + SumBatchLen(Tail(cs))

LogIds(cs) ==
    UNION {{cs[i].batch[j].id : j \in 1..Len(cs[i].batch)} : i \in 1..Len(cs)}

\* C12: from an empty store and an empty cursor, when backfill returns on an
\* empty batch that followed the non-empty batches B1..Bk, it has issued k+1
\* fetches (every batch before the last is non-empty and the last is empty),
\* the store holds exactly the ids of B1..Bk, offset is the sum of the batch
\* sizes and lastFetched is the timestamp of the last element of Bk.
C12_BackfillResult ==
    [][\A c \in Callers :
          (pc[c] = "bf_ret" /\ pc'[c] = "select" /\ err[c] = "none")
          => LET cs == bfLog'.calls
                 k == Len(cs) - 1
             IN /\ k >= 0
                /\ cs[k + 1].batch = <<>>
                /\ \A i \in 1..k : cs[i].batch # <<>>
                /\ RowIds(store') = LogIds(cs)
                /\ offset' = SumBatchLen(cs)
                /\ lastFetched' = IF k = 0 THEN EmptyTs
                                  ELSE cs[k].batch[Len(cs[k].batch)].timestamp
      ]_vars

\* backfill has returned after two non-empty batches of three records in all
C12_Witness ==
    /\ pc[MainCaller] = "select"
    /\ err[MainCaller] = "none"
    /\ results[MainCaller] = <<>>
    /\ Len(bfLog.calls) = 3
    /\ SumBatchLen(bfLog.calls) >= 3
    /\ offset = SumBatchLen(bfLog.calls)
    /\ RowIds(store) = LogIds(bfLog.calls)

\* the cursor that the answer of the repository to the seeding query gives
SeedCursor(s) ==
    IF s.err = "none" /\ s.Timestamp # EmptyTs THEN s.Timestamp ELSE EmptyTs

\* C13: seeding at the start of backfill. An answer without error is the row
\* of the current-year partition with the greatest timestamp; the seeding
\* step sets lastFetched to that timestamp when the answer has no error and a
\* non-empty timestamp and leaves it empty otherwise (error, not found);
\* seeding always goes on to the first fetch, surfaces no error and cancels
\* nothing; the first fetch carries that cursor and offset 0.
C13_Seeding ==
    [][\A c \in Callers :
          /\ (pc[c] = "seed" /\ pc'[c] # pc[c])
             => LET s == bfLog'.seed[1]
                IN /\ pc'[c] = "bf_fetch"
                   /\ err'[c] = err[c]
                   /\ cancelled' = cancelled
                   /\ lastFetched = EmptyTs
                   /\ lastFetched' = SeedCursor(s)
                   /\ s.err = "none"
                      => /\ \E r \in store : /\ r.Year = now
                                              /\ r.Timestamp = s.Timestamp
                         /\ \A r \in store :
                               r.Year = now => r.Timestamp <= s.Timestamp
                   /\ s.err = "notfound"
                      => \A r \in store : r.Year # now
          /\ (pc[c] = "bf_fetch" /\ bfLog.calls = <<>> /\ pc'[c] # pc[c])
             => /\ bfLog'.calls[1].from = SeedCursor(bfLog.seed[1])
                /\ bfLog'.calls[1].offset = 0
      ]_vars

\* the repository answered with a timestamp and the first fetch carried it
C13_Witness ==
    /\ Len(bfLog.seed) = 1
    /\ bfLog.seed[1].err = "none"
    /\ bfLog.seed[1].Timestamp # EmptyTs
    /\ Len(bfLog.calls) >= 1
    /\ bfLog.calls[1].from = bfLog.seed[1].Timestamp
    /\ \E r \in store : r.Year # now /\ r.Timestamp > bfLog.seed[1].Timestamp

\* C14: Stop sets the cancellation signal, which is never reset, and a second
\* Stop changes nothing; a unit that waits in the select of the poll loop with
\* the signal set can leave through the Done case whether or not a tick is
\* waiting, and it eventually does leave and is Stopped.
C14_StopEndsPolling ==
    /\ [][/\ Stop => cancelled'
          /\ cancelled => cancelled'
          /\ (cancelled /\ Stop) => UNCHANGED vars]_vars
    /\ [](\A c \in Callers :
             (pc[c] = "select" /\ cancelled) => ENABLED PollDone(c))
    /\ (cancelled /\ pc[MainCaller] = "select")
          ~> (pc[MainCaller] = "stopped")

\* the unit has left the poll loop on the signal, no tick waiting and no
\* fetch having failed
C14_Witness ==
    /\ pc[MainCaller] = "stopped"
    /\ cancelled
    /\ err[MainCaller] = "none"
    /\ ~tick[MainCaller]
    /\ offset > 0

PollCallPcs == {"poll_fetch", "poll_save", "poll_ret"}

Phase(p) ==
    IF p = "none" THEN 0
    ELSE IF p \in BackfillPcs THEN 1
    ELSE IF p = "stopped" THEN 3
    ELSE 2

\* C16: the lifecycle of the poller only moves forward, one state at a time,
\* through Idle, Backfilling, Polling, Stopped; once it is Stopped a later
\* Start finds started set and launches nothing, the unit stays Stopped (it
\* fetches no more) and neither the store nor the cursor changes again.
C16_LifecycleForward ==
    [][\A c \in Callers :
          /\ Phase(pc'[c]) >= Phase(pc[c])
          /\ Phase(pc'[c]) <= Phase(pc[c]) + 1
          /\ pc[c] = "stopped"
             => /\ started
                /\ cancelled /\ cancelled'
                /\ pc' = pc
                /\ startPc'[c] = "idle"
                /\ store' = store
                /\ Cursor' = Cursor
                /\ raw' = raw /\ results' = results /\ err' = err]_vars

\* Start has been called again on a poller whose unit is Stopped
C16_Witness ==
    /\ pc[MainCaller] = "stopped"
    /\ calls[MainCaller] = 2
    /\ startPc[MainCaller] = "idle"
    /\ store # {}

\* C17: a poll tick whose fetch brings zero records writes nothing
\* (StoreDelegations returns an empty result and no error, the store is
\* untouched), leaves offset, lastFetched and the cancellation signal as they
\* are and takes the unit back to select; there, unless Stop has been called,
\* the next tick comes and the tick case is enabled when it has come.
C17_EmptyPollTick ==
    /\ [][\A c \in Callers :
             /\ (pc[c] = "poll_save" /\ raw[c] = <<>> /\ pc'[c] # pc[c])
                => /\ store' = store
                   /\ results'[c] = <<>>
                   /\ err'[c] = "none"
                   /\ Cursor' = Cursor
             /\ (/\ pc[c] = "poll_ret" /\ pc'[c] # pc[c]
                 /\ err[c] = "none" /\ results[c] = <<>>)
                => /\ store' = store
                   /\ Cursor' = Cursor
                   /\ cancelled' = cancelled
                   /\ pc'[c] = "select"]_vars
    /\ [](\A c \in Callers :
             /\ (pc[c] = "select" /\ ~cancelled /\ ~tick[c])
                => ENABLED TimerFire(c)
             /\ (pc[c] = "select" /\ tick[c]) => ENABLED PollTick(c))

\* a poll tick on a poller that has stored records got an empty batch
C17_Witness ==
    /\ pc[MainCaller] = "poll_ret"
    /\ err[MainCaller] = "none"
    /\ results[MainCaller] = <<>>
    /\ ~cancelled
    /\ offset > 0
    /\ store # {}

SavePcs == {"bf_save", "poll_save"}

\* C18: when every record of the response parses, the translation returns one
\* record for each raw record, in the order of the response, with id,
\* timestamp, amount and level copied, delegator equal to the sender address
\* and Year the calendar year in which the timestamp lies; records with the
\* same timestamp get the same Year.
C18_Translation ==
    [][\A c \in Callers :
          (pc[c] \in SavePcs /\ pc'[c] # pc[c] /\ AllParse(raw[c]))
          => LET in == raw[c]
                 out == results'[c]
             IN /\ Len(out) = Len(in)
                /\ \A i \in 1..Len(in) :
                      /\ out[i].ID = in[i].id
                      /\ out[i].Timestamp = in[i].timestamp
                      /\ out[i].Amount = in[i].amount
                      /\ out[i].Level = in[i].level
                      /\ out[i].Delegator = in[i].sender
                      /\ TsPerYear * (out[i].Year - BaseYear) <= in[i].timestamp
                      /\ in[i].timestamp
                           < TsPerYear * (out[i].Year - BaseYear + 1)
                /\ \A i, j \in 1..Len(in) :
                      in[i].timestamp = in[j].timestamp
                      => out[i].Year = out[j].Year]_vars

\* a response of two records with one timestamp, the greater id first, has
\* been translated
C18_Witness ==
    /\ pc[MainCaller] = "bf_ret"
    /\ Len(results[MainCaller]) = 2
    /\ results[MainCaller][1].ID > results[MainCaller][2].ID
    /\ results[MainCaller][1].Timestamp = results[MainCaller][2].Timestamp
    /\ results[MainCaller][1].Delegator # results[MainCaller][2].Delegator
    /\ results[MainCaller][1].Year = YearOf(MaxTs)

\* C19: when a record of the fetched batch does not parse, whatever its
\* position, StoreDelegations returns an error and no result and the store is
\* left as it was; the poller then does what it does on a transport error:
\* backfill returns and the unit enters the poll loop with the cursor
\* unchanged, a poll tick cancels the context and the unit is Stopped with
\* the cursor unchanged.
C19_ParseErrorAtomic ==
    [][\A c \in Callers :
          /\ (pc[c] \in SavePcs /\ pc'[c] # pc[c] /\ ~AllParse(raw[c]))
             => /\ store' = store
                /\ err'[c] = "parse"
                /\ results'[c] = <<>>
          /\ (pc[c] \in RetPcs /\ pc'[c] # pc[c] /\ err[c] = "parse")
             => /\ store' = store
                /\ Cursor' = Cursor
                /\ pc[c] = "bf_ret"
                   => pc'[c] = "select" /\ cancelled' = cancelled
                /\ pc[c] = "poll_ret"
                   => pc'[c] = "stopped" /\ cancelled']_vars

\* a fetch of backfill, after a first batch was stored, has failed to parse
\* and the store holds the first batch only
C19_Witness ==
    /\ pc[MainCaller] = "bf_ret"
    /\ err[MainCaller] = "parse"
    /\ results[MainCaller] = <<>>
    /\ pageSize = 2
    /\ Len(source) = 3
    /\ RowIds(store) = {1, 2}
    /\ offset = 2

\* C20: within one poller lifetime at most one fetch-and-apply is in progress
\* at any moment: at most one unit is between the issue of a fetch and the
\* return of the store write of its batch.
C20_OneFetchInFlight ==
    Cardinality({c \in Callers : pc[c] \in InCallPcs \cup RetPcs}) <= 1

\* C21: crash replay is safe. Whatever the point at which the process died,
\* the cursor that the restarted poller seeds is empty or at or before the
\* timestamp of some stored row, and no step (the replay of the tail window
\* included) changes or removes a row that is stored.
C21_CrashReplaySafe ==
    [][/\ \A r \in store : r \in store'
       /\ \A c \in Callers :
             (pc[c] = "seed" /\ pc'[c] # pc[c])
             => \/ lastFetched' = EmptyTs
                \/ \E r \in store : lastFetched' <= r.Timestamp]_vars

\* a restarted poller (offset still 0) has seeded its cursor from a row that
\* the dead process wrote, on a store of two rows or more
C21_Witness ==
    /\ pc[MainCaller] = "bf_fetch"
    /\ offset = 0
    /\ lastFetched # EmptyTs
    /\ \E r \in store : r.Timestamp = lastFetched
    /\ Cardinality(store) >= 2

\* the rows of a partition that are newer than r / not older than r
Newer(rows, r) == {o \in rows : o.Timestamp > r.Timestamp}

NotOlder(rows, r) == {o \in rows : o.Timestamp >= r.Timestamp}

Max(a, b) == IF a >= b THEN a ELSE b

Min(a, b) == IF a <= b THEN a ELSE b

\* C22: a page that GetDelegations(year, offset) returns holds only stored
\* rows of the requested year, none twice, newest timestamp first, and it is
\* the stretch of that order that starts after the first offset rows and is
\* at most 50 long (the i-th row of the page can stand at place offset + i of
\* the order); a year without rows or an offset past the end gives the empty
\* page, and the only error is a failure of the database itself.
C22_PageOfYear ==
    (readCall.kind = "repo")
    => LET page == readCall.page
           rows == YearRows(store, readCall.year)
           skip == Max(readCall.offset, 0)
       IN /\ readCall.err \in {"none", "store"}
          /\ readCall.err = "none"
             => /\ Len(page) = Min(PageLimit,
                                   Max(Cardinality(rows) - skip, 0))
                /\ \A i \in 1..Len(page) :
                      /\ page[i] \in rows
                      /\ Cardinality(Newer(rows, page[i])) <= skip + i - 1
                      /\ skip + i - 1 < Cardinality(NotOlder(rows, page[i]))
                /\ \A i, j \in 1..Len(page) :
                      /\ i < j => page[i].Timestamp >= page[j].Timestamp
                      /\ i # j => page[i] # page[j]

\* a read of a partition of 52 rows with offset 1 has returned a full page
\* that ends on one of the two rows that share the oldest timestamp
C22_Witness ==
    /\ readCall.kind = "repo"
    /\ readCall.err = "none"
    /\ readCall.offset = 1
    /\ Cardinality(YearRows(store, readCall.year)) = PageLimit + 2
    /\ Len(readCall.page) = PageLimit
    /\ readCall.page[PageLimit].Timestamp = 1
    /\ readCall.page[PageLimit].ID = 2
    /\ \E r \in store : r.Year # readCall.year

\* the year parameter of the last request is acceptable: missing, or an
\* integer from 2018 to the current year
YearAcceptable ==
    LET yp == readCall.req[1]
    IN \/ yp.kind = "missing"
       \/ yp.kind = "int" /\ yp.val >= 2018 /\ yp.val <= now

\* C23: the read endpoint accepts the year exactly when it is missing or an
\* integer in [2018, current year]. An accepted year is the one asked for
\* (the current year when missing) and the store is read with it unless the
\* offset is rejected; any other year gets a bad-request response and the
\* store is not read.
C23_YearValidation ==
    (readCall.kind = "api")
    => /\ YearAcceptable <=> readCall.err # "year"
       /\ ~YearAcceptable
          => /\ readCall.status = 400
             /\ ~readCall.read
             /\ readCall.page = <<>>
       /\ YearAcceptable
          => /\ readCall.year = IF readCall.req[1].kind = "missing" THEN now
                                ELSE readCall.req[1].val
             /\ readCall.err # "offset"
                => /\ readCall.read
                   /\ readCall.status \in {200, 422}

\* the year after the current one has been refused while the store holds
\* rows
C23_Witness ==
    /\ readCall.kind = "api"
    /\ readCall.req[1] = Number(now + 1)
    /\ readCall.status = 400
    /\ ~readCall.read
    /\ store # {}

\* C24: a request to the read endpoint, whether it is answered from the
\* store, refused for its parameters or failed by the store, leaves the
\* poller's offset, lastFetched, started and cancellation signal and the
\* store as they were.
C24_ReadsChangeNothing ==
    [][readCall' # readCall
       => /\ readCall'.kind = "api"
          /\ offset' = offset
          /\ lastFetched' = lastFetched
          /\ started' = started
          /\ cancelled' = cancelled
          /\ store' = store
          /\ pc' = pc]_vars

\* a page has been served from the store while a batch of the backfill is
\* about to be saved and the cursor has already moved
C24_Witness ==
    /\ readCall.kind = "api"
    /\ readCall.status = 200
    /\ readCall.page # <<>>
    /\ pc[MainCaller] = "bf_save"
    /\ lastFetched # EmptyTs
    /\ offset > 0
    /\ started
    /\ ~cancelled

\* C25: the client adds timestamp.gt exactly when fromTimestamp is not
\* empty and offset exactly when offset is greater than zero, each with the
\* value of its argument and whatever the other argument is; with offset 0
\* and an empty timestamp the query gets no parameter. The timestamp filter
\* is strict: no record of the answer is as old as fromTimestamp.
C25_QueryParameters ==
    getCall.sent
    => LET q == getCall.query
       IN /\ q.tsgt # <<>> <=> getCall.from # EmptyTs
          /\ q.tsgt # <<>> => q.tsgt = <<getCall.from>>
          /\ q.offset # <<>> <=> getCall.offset > 0
          /\ q.offset # <<>> => q.offset = <<getCall.offset>>
          /\ (getCall.offset = 0 /\ getCall.from = EmptyTs)
             => q = [tsgt |-> <<>>, offset |-> <<>>]
          /\ getCall.from # EmptyTs
             => \A i \in 1..Len(getCall.batch) :
                   getCall.batch[i].timestamp > getCall.from

\* an offset was sent without a timestamp, and the server skipped that many
\* records of an unfiltered chain
C25_Witness ==
    /\ getCall.sent
    /\ getCall.offset = 1
    /\ getCall.from = EmptyTs
    /\ getCall.query = [tsgt |-> <<>>, offset |-> <<1>>]
    /\ Len(source) = MaxSrc
    /\ getCall.batch # <<>>
    /\ getCall.batch[1] = source[2]

\* C26: a page read while a SaveBatch is under way is a page of the table as
\* it was before the batch or as it is with the whole batch in it, never of
\* a table holding a part of the batch; a SaveBatch that returns an error
\* leaves the table as it was when it began, and one that succeeds leaves
\* the table of the whole batch.
C26_BatchAtomic ==
    [][/\ (tx.open /\ readCall' # readCall /\ readCall'.err = "none")
          => \E st \in {tx.base, SaveBatch(tx.base, tx.batch).rows},
                tie \in {"asc", "desc"} :
                readCall'.page = GetDelegations(st, readCall'.year,
                                                readCall'.offset, tie)
       /\ (tx.open /\ ~tx'.open)
          => IF tx'.err # "none" THEN store' = tx.base
             ELSE store' = SaveBatch(tx.base, tx.batch).rows]_vars

\* a page without error was read when the first of two new records had been
\* inserted and the second had not
C26_Witness ==
    /\ tx.open
    /\ Len(tx.batch) = 2
    /\ tx.seenAt = 1
    /\ tx.batch[1].ID # tx.batch[2].ID
    /\ tx.base = {}
    /\ Cardinality(tx.work) >= 1
    /\ tx.batch[1].Year = tx.batch[2].Year
    /\ readCall.err = "none"
    /\ readCall.year = tx.batch[1].Year
    /\ readCall.offset = 0

FetchPcs == {"bf_fetch", "poll_fetch"}

\* C27: a fetch that the source client fails makes StoreDelegations return
\* the client's error and no records without reaching SaveBatch, so the store
\* is as it was; the error of the client is returned by no other path, and a
\* fetch either fails in this way or goes on to translate and save.
C27_ClientErrorReturned ==
    [][\A c \in Callers :
          /\ (pc[c] \in FetchPcs /\ pc'[c] \in RetPcs)
             => /\ err'[c] = "transport"
                /\ results'[c] = <<>>
                /\ store' = store
          /\ (pc[c] \in FetchPcs /\ pc'[c] \notin RetPcs /\ pc'[c] # pc[c])
             => /\ pc'[c] \in SavePcs
                /\ err'[c] = "none"
          /\ (err'[c] = "transport" /\ err[c] # "transport")
             => /\ pc[c] \in FetchPcs
                /\ pc'[c] \in RetPcs]_vars

\* a fetch of a poll tick has failed after backfill stored records: the
\* error is back in the poller, and nothing was returned
C27_Witness ==
    /\ pc[MainCaller] = "poll_ret"
    /\ err[MainCaller] = "transport"
    /\ results[MainCaller] = <<>>
    /\ store # {}
    /\ offset > 0

\* C28: a batch that was saved without error is returned whole, whatever
\* part of its ids the store already had: the store gains the rows with new
\* ids and nothing else, and does not change when every id was there. The
\* poller then adds the length of the returned batch to offset and sets
\* lastFetched to the timestamp of its last record.
C28_DuplicatesCounted ==
    [][\A c \in Callers :
          /\ (pc[c] \in SavePcs /\ pc'[c] \in RetPcs /\ err'[c] = "none")
             => /\ Len(results'[c]) = Len(raw[c])
                /\ \A i \in 1..Len(raw[c]) : results'[c][i].ID = raw[c][i].id
                /\ RowIds(store') = RowIds(store) \cup BatchIds(results'[c])
                /\ store \subseteq store'
                /\ BatchIds(results'[c]) \subseteq RowIds(store)
                   => store' = store
          /\ (pc[c] \in RetPcs /\ pc'[c] # pc[c] /\ err[c] = "none"
                /\ results[c] # <<>>)
             => /\ offset' = offset + Len(results[c])
                /\ lastFetched' = LastTs(results[c])
                /\ BatchIds(results[c]) \subseteq RowIds(store')]_vars

\* the newest record leads a chain of three read two at a time: the cursor
\* has counted five fetched records and stands at the newest timestamp while
\* the store holds three rows, so two of the five were already stored
C28_Witness ==
    /\ pc[MainCaller] = "bf_fetch"
    /\ pageSize = 2
    /\ Len(source) = 3
    /\ source[1].timestamp = 3
    /\ offset = 5
    /\ lastFetched = 3
    /\ Cardinality(store) = 3

\* the answers the source can give to a fetch with these arguments
Answers(off, from) ==
    LET batch == ServeQuery(source, BuildQuery(off, from), pageSize)
    IN {Corrupt(batch, k) : k \in 0..Len(batch)}

\* C29: every fetch of backfill is answered as a fetch with offset 0 and the
\* current lastFetched, while offset grows by the length of each applied
\* batch; every fetch of the poll loop is answered as a fetch with the
\* current offset and the current lastFetched, it follows the receipt of one
\* tick, and the unit is back at the select before it fetches again. No
\* fetch changes the cursor.
C29_FetchArguments ==
    [][\A c \in Callers :
          /\ (pc[c] = "bf_fetch" /\ pc'[c] = "bf_save")
             => raw'[c] \in Answers(0, lastFetched)
          /\ (pc[c] = "poll_fetch" /\ pc'[c] = "poll_save")
             => raw'[c] \in Answers(offset, lastFetched)
          /\ (pc[c] \in FetchPcs /\ pc'[c] # pc[c])
             => /\ Cursor' = Cursor
                /\ pc[c] = "bf_fetch" => pc'[c] \in {"bf_save", "bf_ret"}
                /\ pc[c] = "poll_fetch" => pc'[c] \in {"poll_save", "poll_ret"}
          /\ (pc[c] = "bf_ret" /\ pc'[c] = "bf_fetch")
             => offset' = offset + Len(results[c])
          /\ (pc'[c] = "poll_fetch" /\ pc[c] # "poll_fetch")
             => /\ pc[c] = "select"
                /\ tick[c]
                /\ ~tick'[c]
          /\ (pc[c] = "select" /\ tick[c] /\ ~tick'[c])
             => pc'[c] \in {"poll_fetch", "stopped"}
          /\ (pc[c] \in {"poll_save", "poll_ret"} /\ pc'[c] # pc[c])
             => pc'[c] \in {"poll_ret", "select", "stopped"}]_vars

\* a poll tick has fetched with an offset that made a difference: the answer
\* is what the chain gives after lastFetched once offset records are skipped,
\* and not what it gives with offset 0
C29_Witness ==
    /\ pc[MainCaller] = "poll_save"
    /\ offset > 0
    /\ lastFetched # EmptyTs
    /\ raw[MainCaller] # <<>>
    /\ raw[MainCaller] \in Answers(offset, lastFetched)
    /\ raw[MainCaller] \notin Answers(0, lastFetched)

\* C30: no tick exists while backfill runs and none is waiting when it
\* returns, so the first poll fetch needs a tick produced after the return of
\* backfill; the steps of a poll fetch begin at the select only, and a unit
\* that has left backfill does not go back to it.
C30_PollAfterBackfill ==
    /\ [](\A c \in Callers : pc[c] \in BackfillPcs => ~tick[c])
    /\ [][\A c \in Callers :
             /\ (pc[c] \in BackfillPcs /\ pc'[c] \notin BackfillPcs)
                => /\ pc[c] = "bf_ret"
                   /\ pc'[c] = "select"
                   /\ ~tick'[c]
             /\ (pc'[c] \in PollCallPcs /\ pc[c] \notin PollCallPcs)
                => /\ pc[c] = "select"
                   /\ tick[c]
             /\ (tick'[c] /\ ~tick[c]) => pc'[c] \notin BackfillPcs
             /\ (pc[c] \in PollCallPcs \cup {"select", "stopped"})
                => pc'[c] \notin BackfillPcs]_vars

\* the first poll fetch is about to be issued: backfill stored the chain and
\* returned, a tick came after that and has been received
C30_Witness ==
    /\ pc[MainCaller] = "poll_fetch"
    /\ ~tick[MainCaller]
    /\ Len(source) = MaxSrc
    /\ Cardinality(store) = MaxSrc
    /\ offset = MaxSrc

\* C31: once the cancellation signal is set, a unit in the polling phase
\* begins no fetch: it does not leave the select for a fetch, whether or not
\* a tick is waiting in the channel.
C31_NoFetchAfterStop ==
    [][\A c \in Callers :
          (cancelled /\ pc[c] = "select") => pc'[c] # "poll_fetch"]_vars

\* the current-year partition is empty and an earlier one is not
OlderOnly == store # {} /\ \A r \in store : r.Year < now

\* C32: when the store holds records of earlier years only, seeding leaves
\* lastFetched empty whatever the store did, the first fetch of backfill
\* asks for the chain from its beginning and is answered with its first
\* page, and while backfill reads the chain again every stored row stays as
\* it is and the ids of the store stay distinct.
C32_EmptyPartitionRescan ==
    /\ [](Cardinality(RowIds(store)) = Cardinality(store))
    /\ [][/\ store \subseteq store'
          /\ \A c \in Callers :
                /\ (pc[c] = "seed" /\ pc'[c] # pc[c] /\ OlderOnly)
                   => /\ lastFetched' = EmptyTs
                      /\ bfLog'.seed[1].err \in {"notfound", "store"}
                /\ (pc[c] = "bf_fetch" /\ bfLog.calls = <<>> /\ OlderOnly
                      /\ pc'[c] = "bf_save")
                   => /\ bfLog'.calls[1].from = EmptyTs
                      /\ bfLog'.calls[1].offset = 0
                      /\ \E k \in 0..Len(raw'[c]) :
                            raw'[c] = Corrupt(Take(source, pageSize), k)
         ]_vars

\* three records of 2018 were stored and the current year is 2019: seeding
\* found nothing, the first fetch returned the first two records again and
\* they have been saved, and the store holds the three rows
C32_Witness ==
    /\ now = BaseYear + 1
    /\ bfLog.seed # <<>>
    /\ bfLog.seed[1].err = "notfound"
    /\ pc[MainCaller] = "bf_ret"
    /\ Len(bfLog.calls) = 1
    /\ bfLog.calls[1].from = EmptyTs
    /\ err[MainCaller] = "none"
    /\ Len(results[MainCaller]) = 2
    /\ Cardinality(store) = 3
    /\ OlderOnly

\* C33: offset never decreases and lastFetched never moves to an earlier
\* timestamp (the empty cursor is before every timestamp), on chains in any
\* order of timestamps: every record of an applied batch is newer than the
\* cursor it is applied to, so the last record is, wherever the newest record
\* of the batch stands.
C33_CursorMonotonic ==
    [][/\ offset' >= offset
       /\ lastFetched' >= lastFetched
       /\ \A c \in Callers :
             (pc[c] \in RetPcs /\ lastFetched' # lastFetched)
             => \A i \in 1..Len(results[c]) :
                   results[c][i].Timestamp > lastFetched]_vars

\* the second batch of backfill, whose newest record came first, has been
\* applied: the cursor stands at its older, last record, which is newer than
\* the last record of the first batch, and offset has grown to four
C33_Witness ==
    /\ pc[MainCaller] = "bf_fetch"
    /\ Len(results[MainCaller]) = 2
    /\ results[MainCaller][1].Timestamp > results[MainCaller][2].Timestamp
    /\ lastFetched = results[MainCaller][2].Timestamp
    /\ lastFetched = 2
    /\ offset = 4
    /\ err[MainCaller] = "none"

\* row r is what the service makes of the raw record s of the source
Genuine(r, s) ==
    /\ ParseOk(s.timestamp)
    /\ r.ID = s.id
    /\ r.Timestamp = s.timestamp
    /\ r.Amount = s.amount
    /\ r.Delegator = s.sender
    /\ r.Level = s.level
    /\ r.Year = YearOf(s.timestamp)

\* C34: in every state every stored row is the translation of a record of
\* the source and no two rows have one id; no step of the poller, of Stop or
\* of the read endpoint takes a row away or changes one, and rows are added
\* by the save of a fetched batch only.
C34_StoreGenuine ==
    /\ [](/\ \A r \in store : \E i \in 1..Len(source) : Genuine(r, source[i])
          /\ \A r, o \in store : r.ID = o.ID => r = o)
    /\ [][/\ store \subseteq store'
          /\ store' # store
             => \E c \in Callers :
                   /\ pc[c] \in SavePcs
                   /\ err'[c] = "none"
                   /\ store' = store \cup {results'[c][i] :
                                             i \in 1..Len(results'[c])}
         ]_vars

\* the unit has stopped with the whole chain stored, and the endpoint has
\* served a page of it
C34_Witness ==
    /\ pc[MainCaller] = "stopped"
    /\ Len(source) = MaxSrc
    /\ Cardinality(store) = MaxSrc
    /\ readCall.kind = "api"
    /\ readCall.status = 200
    /\ readCall.page # <<>>

\* the poller's signal follows the context given to NewPoller, the step that
\* cancels that context changes nothing else, and no step of the poller,
\* Stop included, makes that context done
ParentSignal ==
    /\ [](parentDone => cancelled)
    /\ [][/\ (parentDone' /\ ~parentDone)
             => /\ cancelled'
                /\ pc' = pc
                /\ Cursor' = Cursor
                /\ store' = store
          /\ (cancelled' /\ ~cancelled /\ pc' # pc) => ~parentDone'
         ]_vars

\* C35: cancelling the context given to NewPoller sets the poller's own
\* signal as Stop does, Stop leaves that context alone, and once that context
\* is done a unit at the select of the poll loop does not leave it for a
\* fetch.
C35_ParentCancel ==
    /\ ParentSignal
    /\ [][\A c \in Callers :
             (parentDone /\ pc[c] = "select") => pc'[c] # "poll_fetch"]_vars

\* C36: GetLatestDelegation(year) without error returns the id and the
\* timestamp of a stored row of that year than which no row of that year is
\* newer; it returns not-found and the zero record exactly when the store
\* answers and the year has no row; a record with an error is the zero
\* record.
C36_LatestOfYear ==
    (readCall.kind = "latest")
    => LET rec == readCall.page[1]
           rows == YearRows(store, readCall.year)
       IN /\ readCall.err \in {"none", "notfound", "store"}
          /\ readCall.err = "none"
             => /\ \E r \in rows : /\ r.ID = rec.ID
                                   /\ r.Timestamp = rec.Timestamp
                /\ \A o \in rows : o.Timestamp <= rec.Timestamp
                /\ \A o \in store : o.ID = rec.ID => o.Year = readCall.year
          /\ readCall.err = "notfound" => rows = {}
          /\ readCall.err = "none" => rows # {}
          /\ readCall.err # "none"
             => rec = [ID |-> 0, Timestamp |-> EmptyTs]

\* the newest of three rows of 2018 has been returned from a store that also
\* holds newer rows of 2019
C36_Witness ==
    /\ readCall.kind = "latest"
    /\ readCall.err = "none"
    /\ readCall.year = BaseYear
    /\ readCall.page[1].ID = 3
    /\ Cardinality(YearRows(store, BaseYear)) = 3
    /\ \E r \in store : r.Year = BaseYear + 1
                        /\ r.Timestamp > readCall.page[1].Timestamp

====
